---- MODULE Spec2Model ----
(***************************************************************************)
(* gaiaviz: the SkyPatch class of gaiaviz/SkyPatch.py (latest revision).   *)
(* One SkyPatch object is modelled: its constructor, which builds an ADQL  *)
(* query, submits it to the Gaia archive and derives the distance column,  *)
(* and its two presentation methods.  The archive, astropy, galpy and      *)
(* plotly are external; they are modelled by what the calls made by this   *)
(* code return.                                                            *)
(*   angles: degrees; parallax: milliarcseconds; times: tenths of a Myr.   *)
(***************************************************************************)
EXTENDS Integers, Sequences, FiniteSets, TLC

VARIABLES archive, reachable, pc, error, args, self, query, requests,
          df, fig, call, io, calls

vars == <<archive, reachable, pc, error, args, self, query, requests,
          df, fig, call, io, calls>>

(***************************************************************************)
(* Bounds of the model.                                                    *)
(***************************************************************************)
\* most rows the archive holds
MaxArchive == 3
\* largest row cap passed as num_sources
MaxSources == 2
\* most presentation calls made on one object
MaxCalls == 2

(***************************************************************************)
(* Values.  An optional Python argument is None or Some(x); a catalogue    *)
(* column that is NULL holds the value NULL, outside every column's range. *)
(***************************************************************************)
None == <<>>
Some(x) == <<x>>
Get(o) == o[1]

NULL == -1000

\* Python truthiness of an optional string: None and "" are false.
Truthy(o) == o # None /\ Get(o) # ""

\* dict[k] = v on a dict modelled as a function from keys to values.
Put(d, k, v) == [x \in (DOMAIN d) \cup {k} |-> IF x = k THEN v ELSE d[x]]

\* f"{n}" of a number, and the archive's reading of the literal.
Format(n) == ToString(n)
Literals == 0..110
ParseNumber(s) == CHOOSE n \in Literals : Format(n) = s

(***************************************************************************)
(* The archive's rows the model draws from.  Magnitudes are distinct, so   *)
(* ORDER BY phot_g_mean_mag fixes the order of a result.                   *)
(***************************************************************************)
Row(id, a, d, pa, pd, plx, rv, mag) ==
    [source_id |-> id, ra |-> a, dec |-> d, pmra |-> pa, pmdec |-> pd,
     parallax |-> plx, radial_velocity |-> rv, phot_g_mean_mag |-> mag,
     phot_variable_flag |-> "NOT_AVAILABLE"]

Catalog ==
    { Row(1, 10, 20,  1,  0,  1,   5, 4),
      Row(2, 11, 22, -1,  2,  2,  -3, 6),
      Row(3, 12, 20,  0,  1,  0,   7, 8),
      Row(4, 10, 21,  2, -1,  4,   NULL, 5),
      Row(5, 11, 20,  1,  1, -1,   2, 7),
      Row(6, NULL, NULL, 0, 0, 2,  1, 9),
      Row(7, 10, 20,  1,  2,  3,   4, 12) }

RaValues == {10, 12}
DecValues == {20}
RadiusValues == {0, 1, 2, 5, 95, 99, 100, 101}
NumSourcesValues == {None} \cup {Some(n) : n \in 0..MaxSources}
FilenameValues == {None, Some(""), Some("anim.html")}

(***************************************************************************)
(* __init__: the radius precondition.                                      *)
(***************************************************************************)
\* the range the class docstring states, [1,90]
RadiusDocstring(r) == 1 <= r /\ r <= 90

\* assert 1 < radius < 100
RadiusOk(r) == 1 < r /\ r < 100

(***************************************************************************)
(* __init__: the query text, as the sequence of its tokens.                *)
(***************************************************************************)
QueryBody(a, d, r) ==
    << "source_id", "ra", "dec", "pmra", "pmdec", "parallax",
       "radial_velocity", "phot_g_mean_mag", "phot_variable_flag",
       "FROM", "gaiadr3.gaia_source",
       "WHERE", "1=CONTAINS(POINT(ra,dec),", "CIRCLE", Format(a), Format(d), Format(r),
       "AND", "radial_velocity IS NOT NULL",
       "AND", "ra IS NOT NULL",
       "AND", "dec IS NOT NULL",
       "AND", "parallax >= 0",
       "AND", "phot_g_mean_mag < 10",
       "ORDER BY", "phot_g_mean_mag" >>

\* variant: `if num_sources:` in place of `if num_sources is not None:`
BuildQueryTruthyCap(a, d, r, n) ==
    LET body == QueryBody(a, d, r)
        top  == IF n # None /\ Get(n) # 0
                  THEN <<"TOP", Format(Get(n))>> \o body ELSE body
    IN  <<"SELECT">> \o top

\* variant: the WHERE clause without `parallax >= 0`
BuildQueryNoParallaxFilter(a, d, r, n) ==
    LET full == QueryBody(a, d, r)
        body == SelectSeq(full, LAMBDA tok : tok # "parallax >= 0")
        top  == IF n # None THEN <<"TOP", Format(Get(n))>> \o body ELSE body
    IN  <<"SELECT">> \o top

\* TOP is prepended when num_sources is not None, then SELECT
BuildQuery(a, d, r, n) ==
    LET body == QueryBody(a, d, r)
        top  == IF n # None THEN <<"TOP", Format(Get(n))>> \o body ELSE body
    IN  <<"SELECT">> \o top

(***************************************************************************)
(* Gaia.launch_job(query).get_results(): the archive's answer to a query.  *)
(***************************************************************************)
Tokens(q) == {q[i] : i \in 1..Len(q)}

IndexOf(q, tok) == CHOOSE i \in 1..Len(q) : q[i] = tok

HasTop(q) == Len(q) >= 3 /\ q[1] = "SELECT" /\ q[2] = "TOP"

\* CONTAINS(POINT(ra,dec), CIRCLE(a,d,r)) on the flat sky about the centre.
InCircle(row, q) ==
    LET i == IndexOf(q, "CIRCLE")
        a == ParseNumber(q[i + 1])
        d == ParseNumber(q[i + 2])
        r == ParseNumber(q[i + 3])
    IN  /\ row.ra # NULL
        /\ row.dec # NULL
        /\ (row.ra - a) * (row.ra - a) + (row.dec - d) * (row.dec - d) <= r * r

Satisfies(row, q) ==
    /\ InCircle(row, q)
    /\ "radial_velocity IS NOT NULL" \in Tokens(q) => row.radial_velocity # NULL
    /\ "ra IS NOT NULL" \in Tokens(q) => row.ra # NULL
    /\ "dec IS NOT NULL" \in Tokens(q) => row.dec # NULL
    /\ "parallax >= 0" \in Tokens(q) => (row.parallax # NULL /\ row.parallax >= 0)
    /\ "phot_g_mean_mag < 10" \in Tokens(q) =>
           (row.phot_g_mean_mag # NULL /\ row.phot_g_mean_mag < 10)

Brightest(S) ==
    CHOOSE r \in S : \A o \in S :
        \/ r.phot_g_mean_mag < o.phot_g_mean_mag
        \/ (r.phot_g_mean_mag = o.phot_g_mean_mag /\ r.source_id <= o.source_id)

RECURSIVE OrderByMag(_)
OrderByMag(S) ==
    IF S = {} THEN <<>>
    ELSE LET b == Brightest(S) IN <<b>> \o OrderByMag(S \ {b})

Head_n(s, n) == IF n >= Len(s) THEN s ELSE SubSeq(s, 1, n)

LaunchJob(q, rows) ==
    LET hits    == {r \in rows : Satisfies(r, q)}
        ordered == OrderByMag(hits)
    IN  IF HasTop(q) THEN Head_n(ordered, ParseNumber(q[3])) ELSE ordered

(***************************************************************************)
(* The derived distance column.  Quantities that need not be whole are     *)
(* fractions [num, den].                                                   *)
(***************************************************************************)
\* astropy's parallax() equivalency: v marcsec is 1/v kpc.
ParallaxEquivalency(v) == [num |-> 1, den |-> v]

\* u.marcsec.to(u.kpc, equivalencies=u.parallax()): Unit.to converts the
\* value 1.0 when it is given none.
MarcsecToKpc == ParallaxEquivalency(1)

Distance(plx) == [num |-> plx * MarcsecToKpc.num, den |-> MarcsecToKpc.den]

WithDistance(row) ==
    [k \in (DOMAIN row) \cup {"distance"} |->
        IF k = "distance" THEN Distance(row.parallax) ELSE row[k]]

ToPandas(table) == [i \in 1..Len(table) |-> WithDistance(table[i])]

(***************************************************************************)
(* State.                                                                  *)
(*   archive   the rows the Gaia archive holds                             *)
(*   reachable whether the archive answers a request or the request raises *)
(*   pc        "new", "constructed", or "failed" when __init__ raised      *)
(*   error     the exception __init__ raised, "" when none                 *)
(*   args      the arguments __init__ was called with                      *)
(*   self      the object's attributes, a function from the names assigned *)
(*   query     the query text __init__ built (its tokens)                  *)
(*   requests  the queries submitted to the archive                        *)
(*   df, fig   the long-format table and the figure of the last call       *)
(*   call      the last presentation call, io what it wrote and showed     *)
(*   calls     the presentation calls made                                 *)
(***************************************************************************)
NoCall == [method |-> "", filename |-> None]

Init ==
    /\ archive \in {S \in SUBSET Catalog : Cardinality(S) <= MaxArchive}
    /\ reachable \in BOOLEAN
    /\ pc = "new"
    /\ error = ""
    /\ args = <<>>
    /\ self = <<>>
    /\ query = <<>>
    /\ requests = 0
    /\ df = <<>>
    /\ fig = <<>>
    /\ call = NoCall
    /\ io = <<>>
    /\ calls = 0

Presentation == <<df, fig, call, io, calls>>

(***************************************************************************)
(* SkyPatch(ra, dec, radius, num_sources)                                  *)
(***************************************************************************)
Params(a, d, r, n) == [ra |-> a, dec |-> d, radius |-> r, num_sources |-> n]

\* variant: a failed request is submitted a second time
SkyPatch_init_retry(a, d, r, n) ==
    /\ pc = "new"
    /\ args' = Params(a, d, r, n)
    /\ UNCHANGED <<archive, reachable, Presentation>>
    /\ IF ~RadiusOk(r)
         THEN /\ pc' = "failed"
              /\ error' = "AssertionError"
              /\ UNCHANGED <<self, query, requests>>
         ELSE LET q     == BuildQuery(a, d, r, n)
                  table == LaunchJob(q, archive)
              IN  /\ query' = q
                  /\ requests' = IF reachable THEN requests + 1 ELSE requests + 2
                  /\ pc' = "constructed"
                  /\ error' = ""
                  /\ self' = Put(Put(Params(a, d, r, n), "data", table),
                                 "pandas_data", ToPandas(table))

SkyPatch_init(a, d, r, n) ==
    /\ pc = "new"
    /\ args' = Params(a, d, r, n)
    /\ UNCHANGED <<archive, reachable, Presentation>>
    /\ IF ~RadiusOk(r)
         THEN /\ pc' = "failed"
              /\ error' = "AssertionError"
              /\ UNCHANGED <<self, query, requests>>
         ELSE LET q == BuildQuery(a, d, r, n)
              IN  /\ query' = q
                  /\ requests' = requests + 1
                  /\ IF ~reachable
                       THEN /\ pc' = "failed"
                            /\ error' = "RequestError"
                            /\ self' = Params(a, d, r, n)
                       ELSE LET table == LaunchJob(q, archive)
                            IN  /\ pc' = "constructed"
                                /\ error' = ""
                                /\ self' = Put(Put(Params(a, d, r, n), "data", table),
                                               "pandas_data", ToPandas(table))

(***************************************************************************)
(* plot_2D_star_positions                                                  *)
(***************************************************************************)
Column(table, name) == [i \in 1..Len(table) |-> table[i][name]]

MarkerSize(table) == [i \in 1..Len(table) |-> (10 - table[i].phot_g_mean_mag) * 2]

PlotFigure(pandas) ==
    [data   |-> << [x |-> Column(pandas, "ra"), y |-> Column(pandas, "dec"),
                    mode |-> "markers",
                    marker |-> [size |-> MarkerSize(pandas),
                                color |-> Column(pandas, "phot_g_mean_mag")]] >>,
     layout |-> [template |-> "plotly_dark", width |-> 800, height |-> 800],
     frames |-> <<>>]

plot_2D_star_positions ==
    /\ pc = "constructed"
    /\ calls < MaxCalls
    /\ calls' = calls + 1
    /\ call' = [method |-> "plot_2D_star_positions", filename |-> None]
    /\ fig' = PlotFigure(self.pandas_data)
    /\ io' = << [op |-> "show"] >>
    /\ UNCHANGED <<archive, reachable, pc, error, args, self, query, requests, df>>

(***************************************************************************)
(* animate_2D_star_positions: the orbit integration.  galpy's integration  *)
(* is external; os.ra() and the like are arrays of shape (sources, times), *)
(* here each source drifting from its catalogue position, which it holds   *)
(* at time 0.                                                              *)
(***************************************************************************)
\* ts = [0, 0.2, 0.4, 0.6, 0.8, 1] Myr, in tenths
Ts == <<0, 2, 4, 6, 8, 10>>

n_timesteps == Len(Ts)

Orbits(pandas) ==
    [s \in 1..Len(pandas) |->
        [i \in 1..n_timesteps |->
            [ra    |-> pandas[s].ra + pandas[s].pmra * Ts[i],
             dec   |-> pandas[s].dec + pandas[s].pmdec * Ts[i],
             pmra  |-> pandas[s].pmra,
             pmdec |-> pandas[s].pmdec,
             vlos  |-> pandas[s].radial_velocity]]]

\* os.ra().shape[0]
Shape0(os) == Len(os)

\* [source[i] for source in os.<name>()]
AtStep(os, name, i) == [s \in 1..Len(os) |-> os[s][i][name]]

\* pd.concat of the n_timesteps pieces chunk[1], chunk[2], ..., from piece i on
RECURSIVE Concat(_, _)
Concat(chunk, i) ==
    IF i > n_timesteps THEN <<>> ELSE chunk[i] \o Concat(chunk, i + 1)

\* variant: the piece sized by the number of timesteps, shape[1]
TimestepPieceByTimes(os, i) == [k \in 1..n_timesteps |-> Ts[i]]

\* pd.Series([ts[i].value]*os.ra().shape[0])
TimestepPiece(os, i) == [k \in 1..Shape0(os) |-> Ts[i]]

\* df[name] = series on a frame indexed by its first column: aligned on the
\* index, a missing entry is NaN
Aligned(series, k) == IF k <= Len(series) THEN series[k] ELSE NULL

BuildDf(pandas) ==
    LET os         == Orbits(pandas)
        piece(f(_)) == Concat([i \in 1..n_timesteps |-> f(i)], 1)
        source_ids == piece(LAMBDA i : Column(pandas, "source_id"))
        timesteps  == piece(LAMBDA i : TimestepPiece(os, i))
        ras        == piece(LAMBDA i : AtStep(os, "ra", i))
        decs       == piece(LAMBDA i : AtStep(os, "dec", i))
        pmras      == piece(LAMBDA i : AtStep(os, "pmra", i))
        pmdecs     == piece(LAMBDA i : AtStep(os, "pmdec", i))
        vloss      == piece(LAMBDA i : AtStep(os, "vlos", i))
        mags       == piece(LAMBDA i : Column(pandas, "phot_g_mean_mag"))
    IN  [k \in 1..Len(source_ids) |->
            [source_id |-> source_ids[k],
             timestep  |-> Aligned(timesteps, k),
             ra        |-> Aligned(ras, k),
             dec       |-> Aligned(decs, k),
             pmra      |-> Aligned(pmras, k),
             pmdec     |-> Aligned(pmdecs, k),
             vlos      |-> Aligned(vloss, k),
             phot_g_mean_mag |-> Aligned(mags, k)]]

(***************************************************************************)
(* animate_2D_star_positions: the figure.                                  *)
(***************************************************************************)
\* df[df.timestep == t]
AtTimestep(d, t) == SelectSeq(d, LAMBDA row : row.timestep = t)

Trace0(d, pandas) ==
    [x |-> Column(AtTimestep(d, 0), "ra"),
     y |-> Column(AtTimestep(d, 0), "dec"),
     mode |-> "markers",
     marker |-> [size |-> MarkerSize(pandas),
                 color |-> Column(pandas, "phot_g_mean_mag")]]

FrameTrace(d, pandas, t) ==
    [x |-> Column(AtTimestep(d, t), "ra"),
     y |-> Column(AtTimestep(d, t), "dec"),
     mode |-> "markers",
     marker |-> [color |-> Column(pandas, "phot_g_mean_mag")]]

\* variant: the loop over ts_frames = np.insert(ts.value, 0, ts.value[0]),
\* which the code computes and does not use
FrameTimesInserted == <<Ts[1]>> \o Ts

\* for t in ts.value
FrameTimes == Ts

Frames(d, pandas) ==
    [k \in 1..Len(FrameTimes) |->
        [name |-> FrameTimes[k], data |-> <<FrameTrace(d, pandas, FrameTimes[k])>>]]

SliderSteps ==
    [k \in 1..Len(FrameTimes) |->
        [args   |-> << <<FrameTimes[k]>>, [mode |-> "immediate"] >>,
         label  |-> FrameTimes[k],
         method |-> "animate"]]

SlidersDict(steps) == [active |-> 0, steps |-> steps]

ReplayMenu ==
    [buttons |-> << [args |-> <<None, [fromcurrent |-> TRUE]>>,
                     label |-> "Replay", method |-> "animate"] >>,
     type |-> "buttons"]

\* the layout dict is filled with the axes, then replaced whole, then given
\* the updatemenus and the sliders
AnimLayout(sliders_dict) ==
    LET axes  == Put(Put(Put(<<>>, "xaxis", [title |-> "RA"]),
                         "yaxis", [title |-> "Dec"]),
                     "hovermode", "closest")
        fresh == [hovermode |-> "closest", template |-> "plotly_dark",
                  width |-> 800, height |-> 800, autosize |-> TRUE]
    IN  Put(Put(fresh, "updatemenus", <<ReplayMenu>>), "sliders", <<sliders_dict>>)

AnimFigure(d, pandas) ==
    [data   |-> <<Trace0(d, pandas)>>,
     layout |-> AnimLayout(SlidersDict(SliderSteps)),
     frames |-> Frames(d, pandas)]

\* variant: the figure shown before it is written
WriteAfterShow(filename) ==
    IF Truthy(filename)
      THEN << [op |-> "show"], [op |-> "write_html", path |-> Get(filename)] >>
      ELSE << [op |-> "show"] >>

\* if filename: fig.write_html(filename, ...); fig.show()
AnimOutput(filename) ==
    IF Truthy(filename)
      THEN << [op |-> "write_html", path |-> Get(filename)], [op |-> "show"] >>
      ELSE << [op |-> "show"] >>

\* variant: the long-format table stored over self.pandas_data
animate_keeps_df(filename) ==
    /\ pc = "constructed"
    /\ calls < MaxCalls
    /\ calls' = calls + 1
    /\ call' = [method |-> "animate_2D_star_positions", filename |-> filename]
    /\ df' = BuildDf(self.pandas_data)
    /\ fig' = AnimFigure(df', self.pandas_data)
    /\ io' = AnimOutput(filename)
    /\ self' = Put(self, "pandas_data", df')
    /\ UNCHANGED <<archive, reachable, pc, error, args, query, requests>>

animate_2D_star_positions(filename) ==
    /\ pc = "constructed"
    /\ calls < MaxCalls
    /\ calls' = calls + 1
    /\ call' = [method |-> "animate_2D_star_positions", filename |-> filename]
    /\ df' = BuildDf(self.pandas_data)
    /\ fig' = AnimFigure(df', self.pandas_data)
    /\ io' = AnimOutput(filename)
    /\ UNCHANGED <<archive, reachable, pc, error, args, self, query, requests>>

(***************************************************************************)
(* The specification.                                                      *)
(***************************************************************************)
Next ==
    \/ \E a \in RaValues, d \in DecValues, r \in RadiusValues,
          n \in NumSourcesValues :
            SkyPatch_init(a, d, r, n)
    \/ plot_2D_star_positions
    \/ \E f \in FilenameValues : animate_2D_star_positions(f)

Spec == Init /\ [][Next]_vars

(***************************************************************************)
(* Properties.                                                             *)
(***************************************************************************)
Animated == call.method = "animate_2D_star_positions"

C8_DocstringRange ==
    pc # "new" =>
        ((error = "AssertionError") <=> ~(1 <= args.radius /\ args.radius <= 90))

\* C2: after construction the distance of every row with parallax > 0 is
\* 1/parallax, i.e. distance * parallax = 1.
C2_DistanceIsInverseParallax ==
    pc = "constructed" =>
        \A i \in 1..Len(self.pandas_data) :
            LET row == self.pandas_data[i]
            IN  row.parallax > 0 =>
                    row.distance.num * row.parallax = row.distance.den

\* the rows of the archive that a query centred on (a, d) with radius r is to
\* return: in the circle, nothing missing, parallax >= 0, brighter than 10
Wanted(row, a, d, r) ==
    /\ row.ra # NULL /\ row.dec # NULL /\ row.radial_velocity # NULL
    /\ row.parallax # NULL /\ row.parallax >= 0
    /\ row.phot_g_mean_mag # NULL /\ row.phot_g_mean_mag < 10
    /\ (row.ra - a) * (row.ra - a) + (row.dec - d) * (row.dec - d) <= r * r

WantedRows == {row \in archive : Wanted(row, args.ra, args.dec, args.radius)}

\* C3: with a row cap N (0 included) the query reads SELECT TOP N ... and the
\* stored table has at most N rows; with num_sources None the query has no
\* TOP clause and the table holds every row the query selects.
C3_RowCap ==
    pc = "constructed" =>
        IF args.num_sources # None
          THEN /\ query[1] = "SELECT"
               /\ query[2] = "TOP"
               /\ query[3] = ToString(Get(args.num_sources))
               /\ Len(self.data) <= Get(args.num_sources)
               /\ Len(self.pandas_data) <= Get(args.num_sources)
          ELSE /\ query[1] = "SELECT"
               /\ "TOP" \notin {query[i] : i \in 1..Len(query)}
               /\ Len(self.data) = Cardinality(WantedRows)
               /\ Len(self.pandas_data) = Cardinality(WantedRows)

C3_Witness ==
    /\ pc = "constructed"
    /\ args.num_sources = Some(1)
    /\ Cardinality(WantedRows) >= 2
    /\ Len(self.data) = 1

\* C4: the table animate_2D_star_positions builds has (source rows) x
\* (timesteps) entries: for every timestep exactly one row per source row
\* carries that timestep, every row carries one of the timesteps, and the
\* timesteps are pairwise different.
C4_LongFormatTable ==
    Animated =>
        LET N == Len(self.pandas_data)
            T == Len(Ts)
        IN  /\ Len(df) = N * T
            /\ \A i, j \in 1..T : i # j => Ts[i] # Ts[j]
            /\ \A k \in 1..Len(df) : \E i \in 1..T : df[k].timestep = Ts[i]
            /\ \A i \in 1..T :
                 /\ Cardinality({k \in 1..Len(df) : df[k].timestep = Ts[i]}) = N
                 /\ \A s \in 1..N : \E k \in 1..Len(df) :
                        /\ df[k].timestep = Ts[i]
                        /\ df[k].source_id = self.pandas_data[s].source_id

C4_Witness ==
    /\ Animated
    /\ Len(self.pandas_data) = 2
    /\ Len(df) = 12

\* C5: in every state after construction, every row of the stored table
\* has parallax >= 0 and ra, dec and radial velocity not missing.
C5_FilterInvariant ==
    pc = "constructed" =>
        /\ Len(self.pandas_data) = Len(self.data)
        /\ \A i \in 1..Len(self.data) :
             \A row \in {self.data[i], self.pandas_data[i]} :
                /\ row.parallax # NULL /\ row.parallax >= 0
                /\ row.ra # NULL
                /\ row.dec # NULL
                /\ row.radial_velocity # NULL

C5_Witness ==
    /\ pc = "constructed"
    /\ calls >= 1
    /\ Len(self.data) >= 1
    /\ \E row \in archive : row.parallax < 0 /\ row.parallax # NULL
    /\ \E row \in archive : row.radial_velocity = NULL

\* C6: one construction submits at most one query; when the request fails
\* the error propagates, there is no second request, and neither the table
\* nor the distance column is stored on the object.
C6_SingleRequestNoRetry ==
    /\ requests <= 1
    /\ (requests >= 1 /\ ~reachable) =>
          /\ pc = "failed"
          /\ error = "RequestError"
          /\ requests = 1
          /\ "data" \notin DOMAIN self
          /\ "pandas_data" \notin DOMAIN self

C6_Witness ==
    /\ ~reachable
    /\ requests = 1
    /\ pc = "failed"
    /\ archive # {}

\* C7: once the object is constructed, no step (a plot or an animate call)
\* changes the query parameters or the source table or submits a query.
C7_ReadOnlySnapshot ==
    [][pc = "constructed" =>
          /\ self' = self
          /\ requests' = requests
          /\ query' = query
          /\ archive' = archive]_vars

C7_Witness ==
    /\ calls >= 2
    /\ Animated
    /\ Len(self.pandas_data) >= 1

\* C9: the animated figure has one frame and one slider step per timestep,
\* in timestep order, the k-th step targeting the k-th frame's name; the
\* layout holds the slider and the Replay button; the data trace shows the
\* timestep-0 rows.
C9_FramesAndSlider ==
    Animated =>
        /\ Len(fig.frames) = Len(Ts)
        /\ \A k \in 1..Len(fig.frames) : fig.frames[k].name = Ts[k]
        /\ "sliders" \in DOMAIN fig.layout
        /\ "updatemenus" \in DOMAIN fig.layout
        /\ Len(fig.layout["sliders"]) = 1
        /\ fig.layout["updatemenus"][1].buttons[1].label = "Replay"
        /\ LET steps == fig.layout["sliders"][1].steps
           IN  /\ Len(steps) = Len(Ts)
               /\ \A k \in 1..Len(steps) :
                    /\ steps[k].args[1] = <<fig.frames[k].name>>
                    /\ steps[k].method = "animate"
        /\ Len(fig.data) = 1
        /\ LET zero == SelectSeq(df, LAMBDA row : row.timestep = 0)
           IN  /\ fig.data[1].x = [k \in 1..Len(zero) |-> zero[k].ra]
               /\ fig.data[1].y = [k \in 1..Len(zero) |-> zero[k].dec]
               /\ Len(fig.data[1].x) = Len(self.pandas_data)

C9_Witness ==
    /\ Animated
    /\ Len(fig.frames) = 6
    /\ Len(fig.data[1].x) >= 2

\* C10: animate_2D_star_positions writes the HTML file exactly when it is
\* given a filename (a non-empty path): once, to that path, before the
\* figure is shown; with None nothing is written; the figure is shown
\* either way.
C10_HtmlOnlyWithFilename ==
    Animated =>
        LET writes == SelectSeq(io, LAMBDA e : e.op = "write_html")
            shows  == SelectSeq(io, LAMBDA e : e.op = "show")
        IN  /\ Len(shows) = 1
            /\ io[Len(io)].op = "show"
            /\ call.filename = None => writes = <<>>
            /\ (writes # <<>>) <=> Truthy(call.filename)
            /\ Truthy(call.filename) =>
                  /\ Len(writes) = 1
                  /\ io[1] = [op |-> "write_html", path |-> Get(call.filename)]

C10_Witness ==
    /\ Animated
    /\ call.filename = Some("anim.html")
    /\ Len(io) = 2
    /\ io[1].op = "write_html"

====
